---- MODULE Spec2Model ----
(***************************************************************************)
(* Leaky-Integrate-and-Fire process models of lava/proc/lif/models.py:     *)
(* PyLifModelFloat (tag floating_pt) and PyLifModelBitAcc (tag fixed_pt).  *)
(* One process model object is built per run; run_spk is the only handler. *)
(***************************************************************************)
EXTENDS Integers, Sequences, FiniteSets, TLC

VARIABLES
    tag,              \* which ProcessModel was selected: "floating_pt" / "fixed_pt"
    u, v,             \* state arrays, one element per neuron
    du, dv,           \* decay scalars
    bias, bias_exp,   \* bias mantissa / exponent arrays
    vth,              \* threshold array
    b_vth_computed,   \* PyLifModelBitAcc: cache flag
    effective_bias,   \* PyLifModelBitAcc: cached bias << bias_exp
    effective_vth,    \* PyLifModelBitAcc: cached vth << vth_shift
    s_out,            \* spike vector sent by the last run_spk
    ts,               \* number of run_spk calls made so far
    \* values of the locals of the last run_spk call
    a_in,             \* a_in.recv()                      (line 35 / 102)
    a_in_data,        \* input after np.left_shift        (line 123)
    u_old, v_old,     \* u and v on entry
    decayed_u,        \* decayed_curr after np.int32(...) (line 121)
    decayed_curr,     \* decayed_curr after += a_in_data  (line 125)
    decayed_volt,     \* decayed_volt                     (line 144)
    updated_volt,     \* updated_volt                     (line 145)
    v_new             \* self.v before the reset          (line 39 / 146)

vars == <<tag, u, v, du, dv, bias, bias_exp, vth, b_vth_computed,
          effective_bias, effective_vth, s_out, ts, a_in, a_in_data,
          u_old, v_old, decayed_u, decayed_curr, decayed_volt, updated_volt,
          v_new>>

locals == <<a_in, a_in_data, u_old, v_old, decayed_u, decayed_curr,
            decayed_volt, updated_volt, v_new>>

(***************************************************************************)
(* Bounds of the model.                                                    *)
(***************************************************************************)
NumNeurons == 2
MaxSteps == 2
MaxStepsC == 104

Neurons == 1..NumNeurons

(***************************************************************************)
(* Constants set by PyLifModelBitAcc.__init__.                             *)
(***************************************************************************)
ds_offset == 1
dm_offset == 0
uv_bitwidth == 24
max_uv_val == 2 ^ (uv_bitwidth - 1)
decay_shift == 12
decay_unity == 2 ^ decay_shift
vth_shift == 6
act_shift == 6

(***************************************************************************)
(* numpy integer arithmetic.                                               *)
(***************************************************************************)
Sign(x) == IF x > 0 THEN 1 ELSE IF x < 0 THEN -1 ELSE 0

Abs(x) == IF x < 0 THEN -x ELSE x

\* Conversion to a 16-bit two's complement integer (np.int16 storage).
ToInt16(x) == ((x + 32768) % 65536) - 32768

\* np.left_shift on int16 operands: the result stays int16.
LeftShift16(x, n) == ToInt16(x * (2 ^ n))

\* np.left_shift on int32 operands.  The operands used here stay far below
\* 2^31, so the int32 result is the exact product.
LeftShift32(x, n) == x * (2 ^ n)

\* np.right_shift(a * f, decay_shift) for a, f >= 0, where the product is
\* held in an int64.  The product reaches 2^35, so it is evaluated here
\* limb-wise (a = hi * 2^12 + lo); the value is the exact floor(a*f / 2^12).
MulShr(a, f) ==
    (a \div decay_unity) * f + (((a % decay_unity) * f) \div decay_unity)

\* Mutant of Decay: arithmetic right shift of the signed product (floor).
DecayArithShift(x, decay_const) ==
    LET f == decay_unity - decay_const
        m == MulShr(Abs(x), Abs(f))
        exact == (((Abs(x) % decay_unity) * Abs(f)) % decay_unity) = 0
    IN  IF Sign(x) * Sign(f) >= 0 THEN m
        ELSE IF exact THEN -m ELSE -(m + 1)

\* Lines 118-121 / 141-144: promote to int64, multiply by
\* (decay_unity - decay_const), shift the magnitude, reapply the sign.
Decay(x, decay_const) ==
    LET f == decay_unity - decay_const
    IN  (Sign(x) * Sign(f)) * MulShr(Abs(x), Abs(f))

\* np.mod(x, m): result has the sign of the divisor; integer division by
\* zero yields 0.
NpMod(x, m) ==
    IF m = 0 THEN 0
    ELSE IF m > 0 THEN x % m
    ELSE -((-x) % (-m))

\* Mutants of WrapCurr: the current saturates / is stored unwrapped.
WrapCurrSaturating(x) ==
    IF x < -max_uv_val + 1 THEN -max_uv_val + 1
    ELSE IF x > max_uv_val - 1 THEN max_uv_val - 1 ELSE x

WrapCurrUnwrapped(x) == x

\* Lines 129-130: wrap of the current.
WrapCurr(x) == NpMod(x, Sign(x) * max_uv_val)

neg_voltage_limit == -max_uv_val + 1
pos_voltage_limit == max_uv_val - 1

\* np.clip
Clip(x, lo, hi) == IF x < lo THEN lo ELSE IF x > hi THEN hi ELSE x

\* Mutant of ClipVolt: the voltage wraps like the current.
ClipVoltWrapping(x) == WrapCurr(x)

\* Line 146: saturation of the voltage.
ClipVolt(x) == Clip(x, neg_voltage_limit, pos_voltage_limit)

\* Line 106.
EffectiveBias(b, e) == LeftShift16(b, e)

\* Mutants of EffectiveVth: threshold exponent 7 / no exponent.
EffectiveVthShift7(t) == LeftShift32(t, vth_shift + 1)

EffectiveVthUnshifted(t) == t

\* Line 109.
EffectiveVth(t) == LeftShift32(t, vth_shift)

\* Line 123: a_in_data is int16 and act_shift a Python int, result int16.
AlignInput(a) == LeftShift16(a, act_shift)

\* Lines 40 / 150.
Spikes(volt, th) == volt >= th

\* Mutant of ResetVolt: the voltage of a spiking neuron is kept.
ResetVoltKept(volt, s) == volt

\* Lines 41 / 152.
ResetVolt(volt, s) == IF s THEN 0 ELSE volt

\* Mutant of UseCached: the derived value is recomputed at every call.
UseCachedRecomputed(computed, cached, fresh) == fresh

\* Lines 105-110: the derived value is computed only while b_vth_computed
\* is False, the cached one is used afterwards.
UseCached(computed, cached, fresh) == IF computed THEN cached ELSE fresh

(***************************************************************************)
(* Floating point arithmetic of PyLifModelFloat.  A float is represented   *)
(* by the integer x * FScale.  Every value the model produces is a dyadic  *)
(* rational with at most MaxSteps + 1 fractional bits, so each operation   *)
(* below is exact, as it is in IEEE double precision.                      *)
(***************************************************************************)
FScale == 2 ^ (MaxSteps + 1)

FOne == FScale

FHalf == FScale \div 2

FMul(a, b) == (a * b) \div FScale

\* 2**e for an integer-valued float e >= 0.
FPow2(e) == FScale * (2 ^ (e \div FScale))

(***************************************************************************)
(* PyLifModelBitAcc.run_spk, lines 100-153, on input vector a.             *)
(***************************************************************************)
BitAccStep(a) ==
    LET eff_bias == UseCached(b_vth_computed, effective_bias,
                       [i \in Neurons |-> EffectiveBias(bias[i], bias_exp[i])])
        eff_vth == UseCached(b_vth_computed, effective_vth,
                      [i \in Neurons |-> EffectiveVth(vth[i])])
        decay_const_u == du + ds_offset
        dec_u == [i \in Neurons |-> Decay(u[i], decay_const_u)]
        shifted == [i \in Neurons |-> AlignInput(a[i])]
        dec_curr == [i \in Neurons |-> dec_u[i] + shifted[i]]
        wrapped_curr == [i \in Neurons |-> WrapCurr(dec_curr[i])]
        decay_const_v == dv + dm_offset
        dec_volt == [i \in Neurons |-> Decay(v[i], decay_const_v)]
        upd_volt == [i \in Neurons |->
                        dec_volt[i] + wrapped_curr[i] + eff_bias[i]]
        clipped == [i \in Neurons |-> ClipVolt(upd_volt[i])]
        spk == [i \in Neurons |-> Spikes(clipped[i], eff_vth[i])]
    IN  /\ tag = "fixed_pt"
        /\ effective_bias' = eff_bias
        /\ effective_vth' = eff_vth
        /\ b_vth_computed' = TRUE
        /\ u' = wrapped_curr
        /\ v' = [i \in Neurons |-> ResetVolt(clipped[i], spk[i])]
        /\ s_out' = spk
        /\ ts' = ts + 1
        /\ a_in' = a
        /\ a_in_data' = shifted
        /\ u_old' = u
        /\ v_old' = v
        /\ decayed_u' = dec_u
        /\ decayed_curr' = dec_curr
        /\ decayed_volt' = dec_volt
        /\ updated_volt' = upd_volt
        /\ v_new' = clipped
        /\ UNCHANGED <<tag, du, dv, bias, bias_exp, vth>>

(***************************************************************************)
(* PyLifModelFloat.run_spk, lines 34-42, on input vector a.                *)
(***************************************************************************)
FloatStep(a) ==
    LET u1 == [i \in Neurons |-> FMul(u[i], FOne - du) + a[i]]
        b == [i \in Neurons |-> FMul(bias[i], FPow2(bias_exp[i]))]
        v1 == [i \in Neurons |-> FMul(v[i], FOne - dv) + u1[i] + b[i]]
        spk == [i \in Neurons |-> Spikes(v1[i], vth)]
    IN  /\ tag = "floating_pt"
        /\ u' = u1
        /\ v' = [i \in Neurons |-> ResetVolt(v1[i], spk[i])]
        /\ s_out' = spk
        /\ ts' = ts + 1
        /\ a_in' = a
        /\ u_old' = u
        /\ v_old' = v
        /\ v_new' = v1
        /\ UNCHANGED <<tag, du, dv, bias, bias_exp, vth, b_vth_computed,
                       effective_bias, effective_vth, a_in_data,
                       decayed_u, decayed_curr, decayed_volt, updated_volt>>

(***************************************************************************)
(* Inputs and initial records.                                             *)
(***************************************************************************)
\* Input vectors: the same value on every neuron, or one driven neuron.
InputVecs(A) ==
    {[i \in Neurons |-> x] : x \in A}
    \cup {[i \in Neurons |-> IF i = j THEN x ELSE 0] : j \in Neurons, x \in A}

\* int16 inputs to PyLifModelBitAcc.
AInFixed == {0, 511, -512}

\* float inputs to PyLifModelFloat.
AInFloat == {0, FHalf, -FHalf}

ZeroVec == [i \in Neurons |-> 0]

FalseVec == [i \in Neurons |-> FALSE]

\* Per-neuron initial records of the fixed point model, inside the declared
\* precisions: u, v signed 24 bit, bias signed 13 bit, bias_exp unsigned
\* 3 bit, vth unsigned 17 bit.
Profiles ==
    << [u |-> 0, v |-> 0, bias |-> 10, bias_exp |-> 0, vth |-> 1],
       [u |-> 8388607, v |-> 8388000, bias |-> 4095, bias_exp |-> 7,
        vth |-> 131071],
       [u |-> -8388607, v |-> -8388000, bias |-> -4096, bias_exp |-> 3,
        vth |-> 131071],
       [u |-> -100, v |-> -100, bias |-> 0, bias_exp |-> 0, vth |-> 0] >>

\* Neuron i of configuration c.
ProfileOf(c, i) == Profiles[((c + i - 2) % Len(Profiles)) + 1]

\* (du, dv) pairs inside the unsigned 12 bit range.
DecayPairs == {<<0, 0>>, <<0, 2048>>, <<4095, 4095>>}

\* (du, dv) pairs with du outside the unsigned 12 bit range.
DecayPairsOutOfRange == {<<4096, 0>>, <<4500, 2048>>}

\* State left by PyLifModelBitAcc.__init__ (lines 75-98) and of the locals
\* before the first call.
InitCommon ==
    /\ b_vth_computed = FALSE
    /\ effective_bias = ZeroVec
    /\ effective_vth = ZeroVec
    /\ s_out = FalseVec
    /\ ts = 0
    /\ a_in = ZeroVec
    /\ a_in_data = ZeroVec
    /\ decayed_u = ZeroVec
    /\ decayed_curr = ZeroVec
    /\ decayed_volt = ZeroVec
    /\ updated_volt = ZeroVec

InitFixedWith(pairs) ==
    /\ tag = "fixed_pt"
    /\ \E c \in 1..Len(Profiles) :
          /\ u = [i \in Neurons |-> ProfileOf(c, i).u]
          /\ v = [i \in Neurons |-> ProfileOf(c, i).v]
          /\ bias = [i \in Neurons |-> ProfileOf(c, i).bias]
          /\ bias_exp = [i \in Neurons |-> ProfileOf(c, i).bias_exp]
          /\ vth = [i \in Neurons |-> ProfileOf(c, i).vth]
    /\ \E d \in pairs : du = d[1] /\ dv = d[2]
    /\ u_old = u
    /\ v_old = v
    /\ v_new = v
    /\ InitCommon

InitFixed == InitFixedWith(DecayPairs)

InitFloat ==
    /\ tag = "floating_pt"
    /\ u = ZeroVec
    /\ v = ZeroVec
    /\ bias \in {ZeroVec, [i \in Neurons |-> IF i = 1 THEN FOne ELSE -FOne]}
    /\ bias_exp = [i \in Neurons |-> IF i = 1 THEN FOne ELSE 0]
    /\ vth = FOne
    /\ du \in {0, FHalf}
    /\ dv \in {0, FHalf}
    /\ u_old = u
    /\ v_old = v
    /\ v_new = v
    /\ InitCommon

Init == InitFixed \/ InitFloat

\* Records whose du is outside its declared range: nothing in __init__ or
\* run_spk rejects them.
InitUnchecked == InitFixedWith(DecayPairsOutOfRange)

\* Scenario C: u = v = 0, du = dv = 0, bias = 10, bias_exp = 0, vth = 1.
InitC ==
    /\ tag = "fixed_pt"
    /\ u = ZeroVec
    /\ v = ZeroVec
    /\ bias = [i \in Neurons |-> 10]
    /\ bias_exp = ZeroVec
    /\ vth = [i \in Neurons |-> 1]
    /\ du = 0
    /\ dv = 0
    /\ u_old = u
    /\ v_old = v
    /\ v_new = v
    /\ InitCommon

(***************************************************************************)
(* Actions.                                                                *)
(***************************************************************************)
RunSpkBitAcc ==
    /\ ts < MaxSteps
    /\ \E a \in InputVecs(AInFixed) : BitAccStep(a)

RunSpkFloat ==
    /\ ts < MaxSteps
    /\ \E a \in InputVecs(AInFloat) : FloatStep(a)

\* run_spk of scenario C: zero input at every step.
RunSpkZeroInput ==
    /\ ts < MaxStepsC
    /\ BitAccStep(ZeroVec)

\* The host writes a parameter array of the fixed point model between two
\* time steps (the arrays of lines 71-73 are plain mutable attributes; a
\* write replaces the whole array).
SetBias ==
    /\ tag = "fixed_pt"
    /\ bias' = [i \in Neurons |-> 4095]
    /\ bias' # bias
    /\ UNCHANGED <<tag, u, v, du, dv, bias_exp, vth, b_vth_computed,
                   effective_bias, effective_vth, s_out, ts, locals>>

SetBiasExp ==
    /\ tag = "fixed_pt"
    /\ bias_exp' = [i \in Neurons |-> 2]
    /\ bias_exp' # bias_exp
    /\ UNCHANGED <<tag, u, v, du, dv, bias, vth, b_vth_computed,
                   effective_bias, effective_vth, s_out, ts, locals>>

SetVth ==
    /\ tag = "fixed_pt"
    /\ vth' = [i \in Neurons |-> 100000]
    /\ vth' # vth
    /\ UNCHANGED <<tag, u, v, du, dv, bias, bias_exp, b_vth_computed,
                   effective_bias, effective_vth, s_out, ts, locals>>

Next == RunSpkBitAcc \/ RunSpkFloat \/ SetBias \/ SetBiasExp \/ SetVth

Spec == Init /\ [][Next]_vars

NextUnchecked == RunSpkBitAcc \/ SetBias \/ SetBiasExp \/ SetVth

SpecUnchecked == InitUnchecked /\ [][NextUnchecked]_vars

NextC == RunSpkZeroInput

SpecC == InitC /\ [][NextC]_vars

(***************************************************************************)
(* Properties.                                                             *)
(***************************************************************************)
Fixed == tag = "fixed_pt" /\ ts > 0

\* C1: current wraparound law.  After an update of the fixed point model, a
\* pre-overflow current 2^23 + k with 0 < k < 2^23 is stored as u = k, and
\* -(2^23 + k) is stored as u = -k; in neither case is u clamped to a limit.
CurrentWrapLaw ==
    Fixed =>
      \A i \in Neurons :
        /\ (8388608 < decayed_curr[i] /\ decayed_curr[i] < 16777216)
              => u[i] = decayed_curr[i] - 8388608
        /\ (-16777216 < decayed_curr[i] /\ decayed_curr[i] < -8388608)
              => u[i] = decayed_curr[i] + 8388608

CurrentWrapped ==
    /\ Fixed
    /\ \E i \in Neurons :
          /\ decayed_curr[i] > 8388608
          /\ decayed_curr[i] = decayed_u[i] + a_in[i] * 64
          /\ u[i] > 0
          /\ u[i] < 8388607

CurrentWrappedNegative ==
    /\ Fixed
    /\ \E i \in Neurons : decayed_curr[i] < -8388608 /\ u[i] < 0

\* C2: voltage saturation law.  The voltage written before the spike test is
\* decayed_v + u + effective_bias clipped into [-(2^23 - 1), 2^23 - 1]:
\* larger values become 2^23 - 1, smaller ones -(2^23 - 1), others are kept.
VoltageSaturationLaw ==
    Fixed =>
      \A i \in Neurons :
        /\ updated_volt[i] = decayed_volt[i] + u[i] + effective_bias[i]
        /\ updated_volt[i] > 8388607 => v_new[i] = 8388607
        /\ updated_volt[i] < -8388607 => v_new[i] = -8388607
        /\ (-8388607 <= updated_volt[i] /\ updated_volt[i] <= 8388607)
              => v_new[i] = updated_volt[i]

VoltageSaturated ==
    /\ Fixed
    /\ \E i \in Neurons : updated_volt[i] > 8388607 /\ v_new[i] = 8388607

VoltageSaturatedNegative ==
    /\ Fixed
    /\ \E i \in Neurons : updated_volt[i] < -8388607 /\ v[i] = -8388607

\* C3: reset law.  After an update of either model, a neuron whose emitted
\* spike is true has v = 0, and a neuron that did not spike keeps the
\* voltage computed in that step.
ResetLaw ==
    ts > 0 =>
      \A i \in Neurons :
        /\ s_out[i] => v[i] = 0
        /\ ~s_out[i] => v[i] = v_new[i]

SpikedAndReset ==
    /\ Fixed
    /\ \E i, j \in Neurons :
          /\ s_out[i] /\ v_new[i] > 0 /\ v[i] = 0
          /\ ~s_out[j] /\ v[j] # 0

SpikedAndResetFloat ==
    /\ tag = "floating_pt"
    /\ ts > 0
    /\ \E i \in Neurons : s_out[i] /\ v_new[i] > 0 /\ v[i] = 0

\* C4: one-time caching.  effective_bias and effective_vth are derived by
\* the first run_spk call from the parameters it finds, and no later step
\* (a further call, or a host write to bias, bias_exp or vth) changes them.
OneTimeCaching ==
    [][ /\ b_vth_computed =>
             /\ b_vth_computed'
             /\ effective_bias' = effective_bias
             /\ effective_vth' = effective_vth
        /\ (tag = "fixed_pt" /\ ~b_vth_computed /\ ts' = ts + 1) =>
             /\ b_vth_computed'
             /\ \A i \in Neurons :
                   /\ effective_vth'[i] = vth[i] * 64
                   /\ (effective_bias'[i] - bias[i] * (2 ^ bias_exp[i]))
                         % 65536 = 0
        /\ (~b_vth_computed /\ ts' = ts) =>
             /\ ~b_vth_computed'
             /\ effective_bias' = effective_bias
             /\ effective_vth' = effective_vth ]_vars

StaleCacheUsed ==
    /\ Fixed
    /\ ts >= 2
    /\ \E i \in Neurons :
          /\ (effective_bias[i] - bias[i] * (2 ^ bias_exp[i])) % 65536 # 0
          /\ updated_volt[i] = decayed_volt[i] + u[i] + effective_bias[i]
    /\ \E i \in Neurons : effective_vth[i] # vth[i] * 64

\* m = floor(a * f / 4096) for a, f >= 0, stated without forming a * f.
IsFloorMulDiv(m, a, f) ==
    LET d == m - (a \div 4096) * f
        r == (a % 4096) * f
    IN  /\ 0 <= d
        /\ d <= f
        /\ d * 4096 <= r
        /\ r < (d + 1) * 4096

IsSignedMagnitudeDecay(y, x, f) ==
    /\ IsFloorMulDiv(IF y < 0 THEN -y ELSE y, IF x < 0 THEN -x ELSE x, f)
    /\ x > 0 => y >= 0
    /\ x < 0 => y <= 0
    /\ x = 0 => y = 0
    /\ (IF y < 0 THEN -y ELSE y) <= (IF x < 0 THEN -x ELSE x)

\* C5: decay shift sign law.  The decayed current is
\* sign(u) * floor(|u| * (4096 - (du + 1)) / 4096) and the decayed voltage
\* sign(v) * floor(|v| * (4096 - dv) / 4096): a negative value never decays
\* to a positive one, the magnitude never grows, decay(-x) = -decay(x), and
\* u = -100 with du = 0 decays to -99.
DecayShiftSignLaw ==
    Fixed =>
      /\ \A i \in Neurons :
            /\ IsSignedMagnitudeDecay(decayed_u[i], u_old[i], 4096 - (du + 1))
            /\ IsSignedMagnitudeDecay(decayed_volt[i], v_old[i], 4096 - dv)
            /\ Decay(-u_old[i], du + ds_offset) = -decayed_u[i]
            /\ Decay(-v_old[i], dv + dm_offset) = -decayed_volt[i]
            /\ (u_old[i] = -100 /\ du = 0) => decayed_u[i] = -99

NegativeCurrentDecayed ==
    /\ Fixed
    /\ du = 0
    /\ dv = 2048
    /\ \E i \in Neurons :
          /\ u_old[i] = -100 /\ decayed_u[i] = -99
          /\ v_old[i] = -100 /\ decayed_volt[i] = -50

\* C6: range invariant.  With all parameters and inputs inside their
\* declared ranges, after every update each u lies strictly between -2^23
\* and 2^23 and each v in [-(2^23 - 1), 2^23 - 1].
RangeInvariant ==
    Fixed =>
      \A i \in Neurons :
        /\ -8388608 < u[i] /\ u[i] < 8388608
        /\ -8388607 <= v[i] /\ v[i] <= 8388607

RangeEnforced ==
    /\ Fixed
    /\ du \in 0..4095 /\ dv \in 0..4095
    /\ \A i \in Neurons :
          /\ bias[i] \in -4096..4095
          /\ bias_exp[i] \in 0..7
          /\ vth[i] \in 0..131071
          /\ a_in[i] \in -32768..32767
    /\ \E i \in Neurons : decayed_curr[i] > 8388608
    /\ \E i \in Neurons : updated_volt[i] < -8388607

\* C7: fail-fast validation.  No run_spk call changes u or v while a
\* parameter is outside its declared range (here du > 4095).
NoUpdateWithInvalidParameter ==
    (tag = "fixed_pt" /\ ~(du \in 0..4095)) => (u = u_old /\ v = v_old)

\* C8: scenario C.  With zero input u stays 0, v grows by 10 per step, the
\* first spike is at step 7 where the accumulated voltage is 70 >= 64, v is
\* then 0 and the pattern repeats with period 7.
ScenarioC ==
    \A i \in Neurons :
      /\ u[i] = 0
      /\ v[i] = 10 * (ts % 7)
      /\ ts > 0 =>
            /\ effective_vth[i] = 64
            /\ decayed_curr[i] = 0
            /\ s_out[i] = (ts % 7 = 0)
            /\ v_new[i] = (IF ts % 7 = 0 THEN 70 ELSE 10 * (ts % 7))

ScenarioCSecondSpike ==
    /\ ts = 14
    /\ \A i \in Neurons : s_out[i] /\ v_new[i] = 70 /\ v[i] = 0 /\ v_old[i] = 60

\* C9: no intermediate truncation.  The aligned input equals a_in * 2^6 and
\* the effective bias derived by the first call equals bias * 2^bias_exp,
\* with no wrap at 16 bits.
NoIntermediateTruncation ==
    [][ (tag = "fixed_pt" /\ ~b_vth_computed /\ b_vth_computed') =>
          \A i \in Neurons :
            /\ a_in_data'[i] = a_in'[i] * 64
            /\ effective_bias'[i] = bias[i] * (2 ^ bias_exp[i]) ]_vars

\* C10: positive saturation always fires.  effective_vth is at most
\* 2^23 - 64, a voltage clipped to 2^23 - 1 spikes and is reset in the same
\* update, so no neuron holds v = 2^23 - 1 after an update; a voltage
\* clipped to -(2^23 - 1) never spikes.
PositiveSaturationFires ==
    Fixed =>
      \A i \in Neurons :
        /\ effective_vth[i] <= 8388544
        /\ v_new[i] = 8388607 => (s_out[i] /\ v[i] = 0)
        /\ v[i] # 8388607
        /\ v_new[i] = -8388607 => (~s_out[i] /\ v[i] = -8388607)

SaturatedAtLargestThreshold ==
    /\ Fixed
    /\ \E i \in Neurons :
          /\ updated_volt[i] > 8388607
          /\ effective_vth[i] = 8388544
          /\ s_out[i]
          /\ v[i] = 0

NegativeLimitPersists ==
    /\ Fixed
    /\ \E i \in Neurons : v_old[i] = -8388607 /\ v[i] = -8388607 /\ ~s_out[i]
====
